---- MODULE Spec2Model ----
(***************************************************************************)
(* Planner workers of SuperAI sharing one task.created event.              *)
(*                                                                         *)
(* Every worker process owns an EventBus (src/core/event_bus.py) with the  *)
(* two subscriptions PlannerAgent.register_event_handlers makes, and runs  *)
(* PlannerAgent.handle_task_created (src/microservices/agent-planner/      *)
(* app.py) for the messages its dispatch loop receives.  The broker        *)
(* (Redis) is the environment: a keyspace with SET NX EX / DEL and key     *)
(* expiry, pub/sub delivery, and a connection that may be down for any     *)
(* single call.  One step of a worker is one broker call together with the *)
(* local computation that follows it up to the next broker call; a call    *)
(* either gets through (up) or raises ConnectionError (~up).               *)
(***************************************************************************)
EXTENDS Integers, Sequences, FiniteSets, Bags, TLC

(* ------------------------------ bounds -------------------------------- *)
NumWorkers == 2
MaxCrashes == 1
MaxPublishes == 2
MaxSubscribes == 3

(* ------------------------- program constants -------------------------- *)
max_retries == 3
LockTTL == 60

Workers == 1..NumWorkers

NoId == "<no task_id>"
NoGoal == "<no goal>"
BadGoal == "<goal that is no string>"
BadData == "<data that is no dict>"
NotDict == "<payload that is no dict>"
TaskIds == {"t1"}
Goals == {"g1"}
None == "None"

(* payloads a producer may put on task.created: task_id present or not;    *)
(* data.goal a string, absent, or a truthy value that is not a string, or  *)
(* the data field itself no dict (null, a string); or the whole payload a  *)
(* JSON value that is no object                                            *)
Payloads ==
    [task_id : TaskIds \cup {NoId}, goal : Goals \cup {NoGoal, BadGoal, BadData}]
    \cup {[task_id |-> NotDict, goal |-> NoGoal]}

VARIABLES
    store,      \* Redis keyspace: existing key -> [val, ttl (seconds left)]
    event,      \* payload of the task.created event of this run
    sent,       \* the producer has published it
    inbox,      \* per worker: broker messages not yet taken by listen()
    pc,         \* per worker: position in listen / handle_task_created
    msg,        \* per worker: data argument of the running handler
    attempt,    \* per worker: loop variable of the retry loop
    exc,        \* per worker: the exception whose text is still to be read
    wire,       \* the event the broker accepted in the last step, if any
    call,       \* the keyspace call made in the last step, if any, its reply
                \* and the keyspace before it
    seen,       \* history: the outcomes the accepted events have told so far
    last,       \* history: per worker, how its latest attempt ended
    delays,     \* history: per worker, the sleeps of the running invocation
    rel,        \* history: per worker, releases issued by the invocation
    errs,       \* history: per worker, task.error events the invocation published
    overstay,   \* history: a key expired while its holder was still processing
    crashed,    \* history: per worker, "no", or how the process died
    reg,        \* one EventBus: self.listeners, pattern -> list of listeners
    subs,       \* its pubsub: the channels it is subscribed to
    psubs,      \* its pubsub: the patterns it is subscribed to
    queue,      \* broker messages for it that listen() has not taken yet
    alive,      \* its dispatch loop (listen) is running
    ret,        \* the subscribe or publish call made in the last step, if any
    log,        \* history: the events published, each with the registry then
    inv,        \* history: bag of the listener invocations made
    lock,       \* the EventBus with threads: who holds self._lock
    spc,        \* the subscribe call in progress on the calling thread, if any
    dpc,        \* position of the dispatch thread in listen / _process_message
    cur,        \* the message the dispatch thread has in hand, with its locals
    access      \* the access to self.listeners made in the last step, if any

planvars == <<store, event, sent, inbox, pc, msg, attempt, exc, wire, call,
              seen, last, delays, rel, errs, overstay, crashed>>

busvars == <<reg, subs, psubs, queue, alive, ret, log, inv>>

threadvars == <<lock, spc, dpc, cur, access>>

vars == <<store, event, sent, inbox, pc, msg, attempt, exc, wire, call,
          seen, last, delays, rel, errs, overstay, crashed,
          reg, subs, psubs, queue, alive, ret, log, inv,
          lock, spc, dpc, cur, access>>

(* the topics a planner publishes on *)
PlanTopics == {"plan.proposed", "plan.approved", "plan.error", "task.error"}

(* what an event on a topic tells about the task: it has a plan, or its    *)
(* planning failed                                                         *)
Outcome(topic) ==
    IF topic = "plan.proposed" THEN {"planned"}
    ELSE IF topic \in {"plan.error", "task.error"} THEN {"failed"}
    ELSE {}

(* ------------------------------ helpers ------------------------------- *)
Range(s) == {s[i] : i \in DOMAIN s}

Pow2(n) == 2 ^ n

IsIncreasing(s) == \A i \in 1..(Len(s) - 1) : s[i] < s[i + 1]

(* ---------------------- event_bus.py: registry ------------------------ *)
(* self.listeners after PlannerAgent.register_event_handlers               *)
listeners == [p \in {"task.created", "*"} |->
                 IF p = "*" THEN <<"log_event">> ELSE <<"handle_task_created">>]

(* pubsub state after the same two subscribe calls: the exact channels and *)
(* the patterns this connection is subscribed to                           *)
channels == {p \in DOMAIN listeners : p # "*"}
patterns == {p \in DOMAIN listeners : p = "*"}

(* the dot-separated parts of the topic names and patterns in use; a star  *)
(* is a part of its own in every pattern here                              *)
Segments(name) ==
    CASE name = "task.created" -> <<"task", "created">>
      [] name = "plan.approved" -> <<"plan", "approved">>
      [] name = "x.y" -> <<"x", "y">>
      [] name = "task.*" -> <<"task", "*">>
      [] name = "*" -> <<"*">>
      [] OTHER -> <<name>>

(* glob matching on the parts: a star stands for one or more of them (the  *)
(* dots between them included), any other part for itself                  *)
RECURSIVE GlobMatch(_, _)
GlobMatch(n, p) ==
    IF p = << >> THEN n = << >>
    ELSE IF n = << >> THEN FALSE
    ELSE IF Head(p) = "*"
        THEN \E i \in 1..Len(n) : GlobMatch(SubSeq(n, i + 1, Len(n)), Tail(p))
        ELSE Head(p) = Head(n) /\ GlobMatch(Tail(n), Tail(p))

(* fnmatch.fnmatch(name, pat) *)
fnmatch(name, pat) == GlobMatch(Segments(name), Segments(pat))

(* what Redis sends one subscribed connection for one PUBLISH: a message   *)
(* for the exact channel subscription, then a pmessage per matching        *)
(* pattern subscription                                                    *)
Deliveries(topic, data) ==
    (IF topic \in channels
        THEN <<[type |-> "message", pattern |-> None, channel |-> topic, data |-> data]>>
        ELSE << >>)
    \o
    (IF \E p \in patterns : fnmatch(topic, p)
        THEN <<[type |-> "pmessage", pattern |-> "*", channel |-> topic, data |-> data]>>
        ELSE << >>)

(* EventBus._process_message: the patterns whose listeners are collected   *)
matching_patterns(m) ==
    IF m.type = "pmessage"
        THEN {p \in DOMAIN listeners : p # "*" /\ fnmatch(m.channel, p)}
        ELSE {m.channel}

(* EventBus._process_message: set(listeners_for_event + wildcard_listeners) *)
all_listeners(m) ==
    UNION {IF p \in DOMAIN listeners THEN Range(listeners[p]) ELSE {} :
              p \in matching_patterns(m)}
    \cup Range(listeners["*"])

(* ------------------------ Redis keyspace calls ------------------------ *)
lock_key(task_id) == <<"lock:task_created", task_id>>

(* a SET that lacks NX: it overwrites a key that is there *)
SetNX_Overwrite(s, key, val, ttl) ==
    [ok |-> TRUE,
     store |-> [k \in DOMAIN s \cup {key} |->
                   IF k = key THEN [val |-> val, ttl |-> ttl] ELSE s[k]]]

(* a SET NX that lacks EX: the key never expires *)
SetNX_NoExpiry(s, key, val, ttl) ==
    IF key \in DOMAIN s
        THEN [ok |-> FALSE, store |-> s]
        ELSE [ok |-> TRUE,
              store |-> [k \in DOMAIN s \cup {key} |->
                            IF k = key THEN [val |-> val, ttl |-> -1] ELSE s[k]]]

(* SET key value NX EX ttl: the reply and the keyspace after it            *)
SetNX(s, key, val, ttl) ==
    IF key \in DOMAIN s
        THEN [ok |-> FALSE, store |-> s]
        ELSE [ok |-> TRUE,
              store |-> [k \in DOMAIN s \cup {key} |->
                            IF k = key THEN [val |-> val, ttl |-> ttl] ELSE s[k]]]

(* a DEL that removes nothing *)
Delete_Nothing(s, key) == s

(* DEL key *)
Delete(s, key) == [k \in DOMAIN s \ {key} |-> s[k]]

(* d seconds pass in the keyspace: every ttl drops by d, a key whose ttl   *)
(* is used up is gone                                                      *)
Expire(s, d) ==
    [k \in {x \in DOMAIN s : s[x].ttl > d \/ s[x].ttl < 0} |->
        IF s[k].ttl < 0 THEN s[k] ELSE [s[k] EXCEPT !.ttl = @ - d]]

(* ----------------------- app.py: pure decisions ----------------------- *)
(* create_execution_plan: re.search on a goal that is no string raises     *)
create_execution_plan(task_id, goal) ==
    IF goal = BadGoal THEN [raised |-> TRUE, error |-> "TypeError"]
                      ELSE [raised |-> FALSE, error |-> None]

(* a retry loop that gives up one attempt early *)
AfterRaise_Early(a) == IF a >= max_retries - 2 THEN "pub_task_error" ELSE "sleep"

(* handle_task_created, the except branch: where the loop goes after an    *)
(* attempt raised                                                          *)
AfterRaise(a) == IF a = max_retries - 1 THEN "pub_task_error" ELSE "sleep"

(* a fixed backoff of one second *)
wait_time_Constant(a) == 1

(* handle_task_created: wait_time = 2 ** attempt                           *)
wait_time(a) == Pow2(a)

(* handle_task_created: data.get('data', {}).get('goal', 'Unknown')        *)
error_goal(data) == IF data.goal = NoGoal THEN "Unknown" ELSE data.goal

(* the same expression raises AttributeError when data['data'] is no dict  *)
error_goal_raises(data) == data.goal = BadData

(* --------------------------- positions -------------------------------- *)
RunningPc == {"claim", "pub_proposed", "pub_approved", "pub_plan_error",
              "release", "sleep", "pub_task_error", "ret"}

(* between a successful SET NX and the matching release *)
SectionPc == {"pub_proposed", "pub_approved", "pub_plan_error", "release"}

InSection(w) == pc[w] \in SectionPc

NoMsg == [task_id |-> NoId, goal |-> NoGoal]

(* ------------------------------- Init --------------------------------- *)
(* the bus of the second specification, where it is not running *)
BusIdle ==
    /\ reg = << >>
    /\ subs = {}
    /\ psubs = {}
    /\ queue = << >>
    /\ alive = TRUE
    /\ ret = << >>
    /\ log = << >>
    /\ inv = EmptyBag

(* the threads of the third specification, where they are not running *)
ThreadIdle ==
    /\ lock = "free"
    /\ spc = << >>
    /\ dpc = "listen"
    /\ cur = << >>
    /\ access = << >>

(* the workers and the broker before the event is published *)
PlannerStart ==
    /\ store = << >>
    /\ sent = FALSE
    /\ inbox = [w \in Workers |-> << >>]
    /\ pc = [w \in Workers |-> "idle"]
    /\ msg = [w \in Workers |-> NoMsg]
    /\ attempt = [w \in Workers |-> 0]
    /\ exc = [w \in Workers |-> None]
    /\ wire = << >>
    /\ call = << >>
    /\ seen = {}
    /\ last = [w \in Workers |-> None]
    /\ delays = [w \in Workers |-> << >>]
    /\ rel = [w \in Workers |-> 0]
    /\ errs = [w \in Workers |-> 0]
    /\ overstay = FALSE
    /\ crashed = [w \in Workers |-> "no"]

Init ==
    /\ BusIdle
    /\ ThreadIdle
    /\ event \in Payloads
    /\ PlannerStart

(* ---------------------------- environment ----------------------------- *)
(* scripts/start_multi_agent_task.py: event_bus.publish('task.created',    *)
(* data=task_data), once; Redis hands it to every connected subscriber     *)
ProducerPublish ==
    /\ ~sent
    /\ sent' = TRUE
    /\ wire' = <<[topic |-> "task.created", by |-> 0, task_id |-> event.task_id,
                  error |-> None, goal |-> event.goal]>>
    /\ inbox' = [w \in Workers |->
                    IF pc[w] = "crashed" THEN inbox[w]
                    ELSE inbox[w] \o Deliveries("task.created", event)]
    /\ call' = << >>
    /\ UNCHANGED <<store, event, pc, msg, attempt, exc, seen, last,
                   delays, rel, errs, overstay, crashed>>
    /\ UNCHANGED <<busvars, threadvars>>

(* the timers running in the broker: the ttls of the keys that have one    *)
(* (a key set without expiry has ttl -1, as Redis reports it)              *)
Timers == {store[k].ttl : k \in {x \in DOMAIN store : store[x].ttl > 0}}

Min(S) == CHOOSE x \in S : \A y \in S : x <= y

(* time passes: half a TTL when no key expires before that, or up to the   *)
(* moment the next key expires.  No step of a worker has a deadline: a     *)
(* call may take any time and a sleep may be resumed late, so every order  *)
(* of worker steps and expiries can happen.                                *)
Tick ==
    /\ Timers # {}
    /\ \E d \in {Min(Timers)} \cup {x \in {LockTTL \div 2} : x < Min(Timers)} :
           /\ store' = Expire(store, d)
           /\ overstay' = (overstay \/ \E w \in Workers :
                               /\ InSection(w)
                               /\ lock_key(msg[w].task_id) \in DOMAIN store
                               /\ lock_key(msg[w].task_id) \notin DOMAIN Expire(store, d))
    /\ wire' = << >>
    /\ call' = << >>
    /\ UNCHANGED <<event, sent, inbox, pc, msg, attempt, exc, seen, last,
                   delays, rel, errs, crashed>>
    /\ UNCHANGED <<busvars, threadvars>>

(* a worker process dies, wherever it is; its connection and whatever was  *)
(* queued on it are gone, a key it had set stays until it expires          *)
Crash(w) ==
    /\ pc[w] # "crashed"
    /\ Cardinality({v \in Workers : crashed[v] # "no"}) < MaxCrashes
    /\ crashed' = [crashed EXCEPT ![w] = IF InSection(w) THEN "holding" ELSE "other"]
    /\ pc' = [pc EXCEPT ![w] = "crashed"]
    /\ inbox' = [inbox EXCEPT ![w] = << >>]
    /\ msg' = [msg EXCEPT ![w] = NoMsg]
    /\ attempt' = [attempt EXCEPT ![w] = 0]
    /\ exc' = [exc EXCEPT ![w] = None]
    /\ last' = [last EXCEPT ![w] = None]
    /\ delays' = [delays EXCEPT ![w] = << >>]
    /\ rel' = [rel EXCEPT ![w] = 0]
    /\ errs' = [errs EXCEPT ![w] = 0]
    /\ wire' = << >>
    /\ call' = << >>
    /\ UNCHANGED <<store, event, sent, seen, overstay>>
    /\ UNCHANGED <<busvars, threadvars>>

(* -------------------------- EventBus.publish -------------------------- *)
(* json.dumps(data), redis_client.publish(event_type, message): the event  *)
(* is on the wire when the call gets through, and the call raises when it  *)
(* does not.  (The planners take every topic by their '*' subscription and *)
(* give it to log_event, which logs; those deliveries are left out.)       *)
publish(w, topic, e, up) ==
    /\ call' = << >>
    /\ IF up
        THEN /\ wire' = <<[topic |-> topic, by |-> w, task_id |-> msg[w].task_id,
                           error |-> e, goal |-> IF topic = "task.error"
                                                    THEN error_goal(msg[w])
                                                    ELSE msg[w].goal]>>
             /\ seen' = seen \cup Outcome(topic)
             /\ errs' = [errs EXCEPT ![w] = IF topic = "task.error" THEN @ + 1 ELSE @]
        ELSE /\ wire' = << >>
             /\ UNCHANGED <<seen, errs>>

(* a retry loop without the return in its body: it goes on after an        *)
(* attempt that did not raise                                              *)
LoopNext_Continue(outcome, a) == AfterRaise(a)

(* ------------------- handle_task_created: loop control ---------------- *)
(* the attempt that just ended either returned (the loop body's return) or *)
(* raised (the except branch): the next position of the handler            *)
LoopNext(outcome, a) == IF outcome = "raised" THEN AfterRaise(a) ELSE "ret"

(* _process_task_with_lock ended with `outcome` ("ok", "skip" or "raised") *)
(* and, when it raised, exception e                                        *)
EndAttempt(w, outcome, e) ==
    LET next == LoopNext(outcome, attempt[w])
    IN  /\ pc' = [pc EXCEPT ![w] = next]
        /\ exc' = [exc EXCEPT ![w] = IF next = "pub_task_error" THEN e ELSE None]
        /\ last' = [last EXCEPT ![w] = outcome]
        /\ delays' = [delays EXCEPT ![w] =
                         IF next = "sleep" THEN Append(@, wait_time(attempt[w])) ELSE @]

(* a loop that hands each message to a greenlet of its own: the next       *)
(* message is taken while the handler of the last one sleeps               *)
listen_ready_Spawned(w) == pc[w] \in {"idle", "sleep"}

(* for message in self.pubsub.listen(): self._process_message(message)     *)
(* the loop is back at pubsub.listen() only when _process_message, and the *)
(* listeners it called, have returned                                      *)
listen_ready(w) == pc[w] = "idle"

(* -------------------------- EventBus.listen --------------------------- *)
(* listen() takes the next message; _process_message picks the listeners   *)
(* and calls them.  log_event only logs.  handle_task_created runs up to   *)
(* its first Redis call; data.get('task_id') on a payload that is no dict  *)
(* raises AttributeError, which _process_message catches and logs.         *)
Dispatch(w) ==
    /\ listen_ready(w)
    /\ inbox[w] # << >>
    /\ LET m == Head(inbox[w])
       IN  /\ inbox' = [inbox EXCEPT ![w] = Tail(@)]
           /\ IF "handle_task_created" \in all_listeners(m) /\ m.data.task_id = NotDict
                 THEN /\ pc' = [pc EXCEPT ![w] = "ret"]
                      /\ msg' = [msg EXCEPT ![w] = m.data]
                      /\ last' = [last EXCEPT ![w] = "thrown"]
                 ELSE IF "handle_task_created" \in all_listeners(m) /\ m.data.task_id # NoId
                 THEN /\ pc' = [pc EXCEPT ![w] = "claim"]
                      /\ msg' = [msg EXCEPT ![w] = m.data]
                      /\ last' = last
                 ELSE UNCHANGED <<pc, msg, last>>
    /\ wire' = << >>
    /\ call' = << >>
    /\ UNCHANGED <<store, event, sent, attempt, exc, seen,
                   delays, rel, errs, overstay, crashed>>
    /\ UNCHANGED <<busvars, threadvars>>

(* an attempt that treats a claim conflict as a failure of the claim call  *)
AfterClaim_ConflictRaises(up, ok, goal, plan) ==
    IF ~up \/ ~ok THEN "raised"
    ELSE IF goal = BadData THEN "raised"
    ELSE IF goal = NoGoal THEN "release"
    ELSE IF plan.raised THEN "pub_plan_error"
    ELSE "pub_proposed"

(* an attempt that does not look at the reply of the claim call *)
AfterClaim_IgnoreReply(up, ok, goal, plan) ==
    IF ~up THEN "raised"
    ELSE IF goal = BadData THEN "raised"
    ELSE IF goal = NoGoal THEN "release"
    ELSE IF plan.raised THEN "pub_plan_error"
    ELSE "pub_proposed"

(* ------------------- _process_task_with_lock: claim ------------------- *)
(* a handler without the try/except around plan generation *)
AfterClaim_NoInnerCatch(up, ok, goal, plan) ==
    IF ~up THEN "raised"
    ELSE IF ~ok THEN "skip"
    ELSE IF goal = BadData THEN "raised"
    ELSE IF goal = NoGoal THEN "release"
    ELSE IF plan.raised THEN "raised"
    ELSE "pub_proposed"

(* a handler that approves before it proposes *)
AfterClaim_ApproveFirst(up, ok, goal, plan) ==
    IF ~up THEN "raised"
    ELSE IF ~ok THEN "skip"
    ELSE IF goal = BadData THEN "raised"
    ELSE IF goal = NoGoal THEN "release"
    ELSE IF plan.raised THEN "pub_plan_error"
    ELSE "pub_approved"

(* what the attempt does after the claim call, up to its next Redis call:  *)
(* "raised" (the call raised, or data.get('data', {}).get('goal') raised   *)
(* AttributeError after the claim), "skip" (the key was there), or the     *)
(* position of the next call after a successful claim                      *)
AfterClaim(up, ok, goal, plan) ==
    IF ~up THEN "raised"
    ELSE IF ~ok THEN "skip"
    ELSE IF goal = BadData THEN "raised"
    ELSE IF goal = NoGoal THEN "release"
    ELSE IF plan.raised THEN "pub_plan_error"
    ELSE "pub_proposed"

(* redis_client.set(lock_key, f"locked_attempt_{attempt}", nx=True, ex=60) *)
(* and what follows it without another Redis call                          *)
TryClaim(w) ==
    /\ pc[w] = "claim"
    /\ \E up \in BOOLEAN :
         LET key == lock_key(msg[w].task_id)
             r == SetNX(store, key, attempt[w], LockTTL)
             plan == create_execution_plan(msg[w].task_id, msg[w].goal)
             to == AfterClaim(up, r.ok, msg[w].goal, plan)
         IN  /\ store' = IF up THEN r.store ELSE store
             /\ call' = <<[by |-> w, op |-> "SET", key |-> key, before |-> store,
                           reply |-> IF ~up THEN "raised"
                                     ELSE IF r.ok THEN "OK" ELSE "nil",
                           raises |-> ~up]>>
             /\ IF to \in {"raised", "skip"}
                   THEN EndAttempt(w, to, IF up THEN "AttributeError"
                                                ELSE "ConnectionError: set")
                   ELSE /\ pc' = [pc EXCEPT ![w] = to]
                        /\ exc' = [exc EXCEPT ![w] = plan.error]
                        /\ UNCHANGED <<last, delays>>
    /\ wire' = << >>
    /\ UNCHANGED <<event, sent, inbox, msg, attempt, seen, rel, errs, overstay,
                   crashed>>
    /\ UNCHANGED <<busvars, threadvars>>

(* self.event_bus.publish('plan.proposed', data=plan_data) *)
PubProposed(w) ==
    /\ pc[w] = "pub_proposed"
    /\ \E up \in BOOLEAN :
         /\ publish(w, "plan.proposed", None, up)
         /\ pc' = [pc EXCEPT ![w] = IF up THEN "pub_approved" ELSE "pub_plan_error"]
         /\ exc' = [exc EXCEPT ![w] = IF up THEN None ELSE "ConnectionError: publish"]
    /\ UNCHANGED <<store, event, sent, inbox, msg, attempt, last,
                   delays, rel, overstay, crashed>>
    /\ UNCHANGED <<busvars, threadvars>>

(* approve_plan: self.event_bus.publish('plan.approved', ...) *)
PubApproved(w) ==
    /\ pc[w] = "pub_approved"
    /\ \E up \in BOOLEAN :
         /\ publish(w, "plan.approved", None, up)
         /\ pc' = [pc EXCEPT ![w] = IF up THEN "release" ELSE "pub_plan_error"]
         /\ exc' = [exc EXCEPT ![w] = IF up THEN None ELSE "ConnectionError: publish"]
    /\ UNCHANGED <<store, event, sent, inbox, msg, attempt, last,
                   delays, rel, overstay, crashed>>
    /\ UNCHANGED <<busvars, threadvars>>

(* the except branch: self.event_bus.publish('plan.error', ...); when this *)
(* publish raises, the new exception leaves the attempt through finally    *)
PubPlanError(w) ==
    /\ pc[w] = "pub_plan_error"
    /\ \E up \in BOOLEAN :
         /\ publish(w, "plan.error", exc[w], up)
         /\ exc' = [exc EXCEPT ![w] = IF up THEN None ELSE "ConnectionError: publish"]
    /\ pc' = [pc EXCEPT ![w] = "release"]
    /\ UNCHANGED <<store, event, sent, inbox, msg, attempt, last,
                   delays, rel, overstay, crashed>>
    /\ UNCHANGED <<busvars, threadvars>>

(* a release without the try/except around the delete *)
safe_release_lock_NotCaught(s, key, up) ==
    IF up THEN [store |-> Delete(s, key), raises |-> FALSE]
          ELSE [store |-> s, raises |-> TRUE]

(* _safe_release_lock: the keyspace after it, and whether it raises to its *)
(* caller (it catches everything)                                          *)
safe_release_lock(s, key, up) ==
    IF up THEN [store |-> Delete(s, key), raises |-> FALSE]
          ELSE [store |-> s, raises |-> FALSE]

(* the release on the missing-goal path and in finally, then the end of    *)
(* the attempt: return, or the exception in flight reaches the retry loop  *)
Release(w) ==
    /\ pc[w] = "release"
    /\ \E up \in BOOLEAN :
         LET key == lock_key(msg[w].task_id)
             r == safe_release_lock(store, key, up)
         IN  /\ store' = r.store
             /\ call' = <<[by |-> w, op |-> "DEL", key |-> key, before |-> store,
                           reply |-> IF ~up THEN "raised"
                                     ELSE IF key \in DOMAIN store THEN "1" ELSE "0",
                           raises |-> r.raises]>>
             /\ IF r.raises
                   THEN EndAttempt(w, "raised", "ConnectionError: delete")
                   ELSE IF exc[w] # None
                   THEN EndAttempt(w, "raised", exc[w])
                   ELSE EndAttempt(w, "ok", None)
    /\ rel' = [rel EXCEPT ![w] = @ + 1]
    /\ wire' = << >>
    /\ UNCHANGED <<event, sent, inbox, msg, attempt, seen, errs, overstay, crashed>>
    /\ UNCHANGED <<busvars, threadvars>>

(* gevent.sleep(wait_time) is over: the next iteration of the retry loop   *)
Wake(w) ==
    /\ pc[w] = "sleep"
    /\ pc' = [pc EXCEPT ![w] = "claim"]
    /\ attempt' = [attempt EXCEPT ![w] = @ + 1]
    /\ wire' = << >>
    /\ call' = << >>
    /\ UNCHANGED <<store, event, sent, inbox, msg, exc, seen, last,
                   delays, rel, errs, overstay, crashed>>
    /\ UNCHANGED <<busvars, threadvars>>

(* _publish_error_event after the last attempt raised; a failing publish   *)
(* is caught and logged.  When the data field is no dict, computing the    *)
(* goal argument raises AttributeError in the except branch: nothing is    *)
(* published and the handler raises to _process_message.                   *)
PubTaskError(w) ==
    /\ pc[w] = "pub_task_error"
    /\ IF error_goal_raises(msg[w])
          THEN /\ wire' = << >>
               /\ call' = << >>
               /\ last' = [last EXCEPT ![w] = "thrown"]
               /\ UNCHANGED <<seen, errs>>
          ELSE /\ \E up \in BOOLEAN : publish(w, "task.error", exc[w], up)
               /\ last' = last
    /\ pc' = [pc EXCEPT ![w] = "ret"]
    /\ exc' = [exc EXCEPT ![w] = None]
    /\ UNCHANGED <<store, event, sent, inbox, msg, attempt,
                   delays, rel, overstay, crashed>>
    /\ UNCHANGED <<busvars, threadvars>>

(* handle_task_created has returned to _process_message *)
Return(w) ==
    /\ pc[w] = "ret"
    /\ pc' = [pc EXCEPT ![w] = "idle"]
    /\ msg' = [msg EXCEPT ![w] = NoMsg]
    /\ attempt' = [attempt EXCEPT ![w] = 0]
    /\ last' = [last EXCEPT ![w] = None]
    /\ delays' = [delays EXCEPT ![w] = << >>]
    /\ rel' = [rel EXCEPT ![w] = 0]
    /\ errs' = [errs EXCEPT ![w] = 0]
    /\ wire' = << >>
    /\ call' = << >>
    /\ UNCHANGED <<store, event, sent, inbox, exc, seen, overstay,
                   crashed>>
    /\ UNCHANGED <<busvars, threadvars>>

Next ==
    \/ ProducerPublish
    \/ Tick
    \/ \E w \in Workers : Crash(w)
    \/ \E w \in Workers : Dispatch(w)
    \/ \E w \in Workers : TryClaim(w)
    \/ \E w \in Workers : PubProposed(w)
    \/ \E w \in Workers : PubApproved(w)
    \/ \E w \in Workers : PubPlanError(w)
    \/ \E w \in Workers : Release(w)
    \/ \E w \in Workers : Wake(w)
    \/ \E w \in Workers : PubTaskError(w)
    \/ \E w \in Workers : Return(w)

Spec == Init /\ [][Next]_vars

TypeOK ==
    /\ \A k \in DOMAIN store : store[k].ttl \in 1..LockTTL /\ store[k].val \in 0..(max_retries - 1)
    /\ \A w \in Workers : pc[w] \in RunningPc \cup {"idle", "crashed"}
    /\ \A w \in Workers : attempt[w] \in 0..(max_retries - 1)
    /\ seen \subseteq {"planned", "failed"}

(* ===================== EventBus: one bus on its own =================== *)
(* A single EventBus whose users subscribe listeners at any time, while    *)
(* publishers (other EventBus instances, or clients that write to the      *)
(* channel directly) publish and its dispatch loop runs.  A subscribe call *)
(* (which holds self._lock throughout) and the handling of one broker      *)
(* message are one step each, and the broker call of subscribe gets        *)
(* through; the specification of the bus with threads, further down, takes *)
(* both apart.                                                             *)
Listeners == {"L1", "L2"}

(* a listener that raises whenever it is called *)
RaisingListeners == {"L2"}

Topics == {"task.created", "plan.approved", "x.y"}

BusPatterns == {"task.created", "task.*", "*"}

(* payloads handed to publish: a dict of plain values, a dict holding a    *)
(* tuple, a dict holding a set                                             *)
PyObjs == {"{'k': 1}", "{'k': (1, 2)}", "{'k': {1, 2}}"}

(* text written to a channel by a client that is no EventBus *)
NotJson == "not json"

(* json.dumps: a tuple is written as a list, a set is refused *)
json_dumps(obj) ==
    CASE obj = "{'k': 1}" -> [ok |-> TRUE, text |-> "{\"k\": 1}"]
      [] obj = "{'k': (1, 2)}" -> [ok |-> TRUE, text |-> "{\"k\": [1, 2]}"]
      [] OTHER -> [ok |-> FALSE, text |-> None]

(* json.loads *)
json_loads(text) ==
    CASE text = "{\"k\": 1}" -> [ok |-> TRUE, value |-> "{'k': 1}"]
      [] text = "{\"k\": [1, 2]}" -> [ok |-> TRUE, value |-> "{'k': [1, 2]}"]
      [] OTHER -> [ok |-> FALSE, value |-> None]

RECURSIVE SetToSeq(_)
SetToSeq(S) ==
    IF S = {} THEN << >>
    ELSE LET x == CHOOSE y \in S : TRUE IN <<x>> \o SetToSeq(S \ {x})

(* the orders in which a set can be iterated *)
Orders(S) == {o \in [1..Cardinality(S) -> S] : Range(o) = S}

(* a pattern that subscribe hands to psubscribe: '*' in event_type (no     *)
(* pattern in use has '?' or '[')                                          *)
IsGlob(p) == "*" \in Range(Segments(p))

(* a subscribe that does not look whether the listener is there already *)
subscribe_NoCheck(r, chans, pats, p, l) ==
    [reg |-> [q \in DOMAIN r \cup {p} |->
                 IF q = p THEN (IF p \in DOMAIN r THEN r[p] ELSE << >>) \o <<l>>
                          ELSE r[q]],
     subs |-> IF IsGlob(p) THEN chans ELSE chans \cup {p},
     psubs |-> IF IsGlob(p) THEN pats \cup {p} ELSE pats]

(* EventBus.subscribe, under self._lock: the registry and the pubsub       *)
(* subscriptions after the call                                            *)
subscribe(r, chans, pats, p, l) ==
    IF p \in DOMAIN r /\ l \in Range(r[p])
        THEN [reg |-> r, subs |-> chans, psubs |-> pats]
        ELSE [reg |-> [q \in DOMAIN r \cup {p} |->
                          IF q = p THEN (IF p \in DOMAIN r THEN r[p] ELSE << >>) \o <<l>>
                                   ELSE r[q]],
              subs |-> IF IsGlob(p) THEN chans ELSE chans \cup {p},
              psubs |-> IF IsGlob(p) THEN pats \cup {p} ELSE pats]

(* a publish that logs a failure and returns *)
EventBus_publish_Swallow(data, up) ==
    LET d == json_dumps(data)
    IN  [raises |-> None, sent |-> d.ok /\ up, message |-> d.text]

(* EventBus.publish: json.dumps(data), then redis_client.publish; whether  *)
(* it raises, and whether the message went to the broker                   *)
EventBus_publish(data, up) ==
    LET d == json_dumps(data)
    IN  IF ~d.ok THEN [raises |-> "TypeError", sent |-> FALSE, message |-> None]
        ELSE IF ~up THEN [raises |-> "ConnectionError", sent |-> FALSE, message |-> d.text]
        ELSE [raises |-> None, sent |-> TRUE, message |-> d.text]

(* a broker that sends the message to a connection whether or not it is   *)
(* subscribed to the channel                                               *)
Delivered_Unsubscribed(ev, topic, text, chans, pats) ==
    <<[ev |-> ev, type |-> "message", pattern |-> None,
       channel |-> topic, data |-> text]>>
    \o
    [i \in 1..Cardinality({q \in pats : fnmatch(topic, q)}) |->
        [ev |-> ev, type |-> "pmessage",
         pattern |-> SetToSeq({q \in pats : fnmatch(topic, q)})[i],
         channel |-> topic, data |-> text]]

(* what Redis sends a connection for event number ev: a message if it is   *)
(* subscribed to the channel, and a pmessage for every pattern it is       *)
(* subscribed to that matches the channel                                  *)
Delivered(ev, topic, text, chans, pats) ==
    (IF topic \in chans
        THEN <<[ev |-> ev, type |-> "message", pattern |-> None,
                channel |-> topic, data |-> text]>>
        ELSE << >>)
    \o
    [i \in 1..Cardinality({q \in pats : fnmatch(topic, q)}) |->
        [ev |-> ev, type |-> "pmessage",
         pattern |-> SetToSeq({q \in pats : fnmatch(topic, q)})[i],
         channel |-> topic, data |-> text]]

(* a dispatch that takes every registered pattern for a pmessage *)
matching_in_All(r, m) ==
    IF m.type = "pmessage" THEN DOMAIN r \ {"*"} ELSE {m.channel}

(* _process_message on registry r: the registry keys whose listeners are   *)
(* collected                                                               *)
matching_in(r, m) ==
    IF m.type = "pmessage"
        THEN {p \in DOMAIN r : p # "*" /\ fnmatch(m.channel, p)}
        ELSE {m.channel}

(* a dispatch that leaves out the listeners registered under '*' *)
listeners_in_NoWildcard(r, m) ==
    UNION {IF p \in DOMAIN r THEN Range(r[p]) ELSE {} : p \in matching_in(r, m)}

(* _process_message on registry r: set(listeners_for_event +               *)
(* wildcard_listeners)                                                     *)
listeners_in(r, m) ==
    UNION {IF p \in DOMAIN r THEN Range(r[p]) ELSE {} : p \in matching_in(r, m)}
    \cup (IF "*" \in DOMAIN r THEN Range(r["*"]) ELSE {})

(* a decode without the try/except: the exception leaves the loop *)
decode_NoCatch(text) ==
    LET d == json_loads(text)
    IN  [ok |-> d.ok, value |-> d.value, fatal |-> ~d.ok]

(* _process_message: json.loads(payload) in its try/except; a payload that *)
(* does not decode is logged and the message dropped                       *)
decode(text) ==
    LET d == json_loads(text)
    IN  [ok |-> d.ok, value |-> d.value, fatal |-> FALSE]

(* a listener loop without the try/except: the first listener that raises  *)
(* ends the loop and the exception leaves listen()                         *)
RECURSIVE run_listeners_NoCatch(_)
run_listeners_NoCatch(order) ==
    IF order = << >> THEN [invoked |-> {}, fatal |-> FALSE]
    ELSE IF Head(order) \in RaisingListeners
        THEN [invoked |-> {Head(order)}, fatal |-> TRUE]
        ELSE LET rest == run_listeners_NoCatch(Tail(order))
             IN  [invoked |-> {Head(order)} \cup rest.invoked, fatal |-> rest.fatal]

(* _process_message: for listener in all_listeners, each call in its own   *)
(* try/except: the listeners that were called, and whether an exception    *)
(* leaves the loop                                                         *)
RECURSIVE run_listeners(_)
run_listeners(order) ==
    IF order = << >> THEN [invoked |-> {}, fatal |-> FALSE]
    ELSE LET rest == run_listeners(Tail(order))
         IN  [invoked |-> {Head(order)} \cup rest.invoked, fatal |-> rest.fatal]

NumPairs(r) == Cardinality({<<p, l>> \in (DOMAIN r) \X Listeners : l \in Range(r[p])})

(* some thread calls event_bus.subscribe(p, l) *)
Subscribe(p, l) ==
    /\ NumPairs(reg) < MaxSubscribes \/ (p \in DOMAIN reg /\ l \in Range(reg[p]))
    /\ LET r == subscribe(reg, subs, psubs, p, l)
       IN  /\ reg' = r.reg
           /\ subs' = r.subs
           /\ psubs' = r.psubs
           /\ ret' = <<[op |-> "subscribe", pattern |-> p, listener |-> l,
                        before |-> [reg |-> reg, subs |-> subs, psubs |-> psubs]]>>
    /\ UNCHANGED <<queue, alive, log, inv>>
    /\ UNCHANGED <<planvars, threadvars>>

(* the broker takes a message for a channel: it is event number Len(log)+1 *)
Accept(topic, text) ==
    /\ log' = Append(log, [topic |-> topic, text |-> text, reg |-> reg])
    /\ queue' = queue \o Delivered(Len(log) + 1, topic, text, subs, psubs)

(* some EventBus publishes: event_bus.publish(topic, data=obj) *)
BusPublish(topic, obj, up) ==
    /\ Len(log) < MaxPublishes
    /\ LET r == EventBus_publish(obj, up)
       IN  /\ ret' = <<[op |-> "publish", topic |-> topic, data |-> obj, up |-> up,
                        raises |-> r.raises, sent |-> r.sent, before |-> log]>>
           /\ IF r.sent THEN Accept(topic, r.message) ELSE UNCHANGED <<log, queue>>
    /\ UNCHANGED <<reg, subs, psubs, alive, inv>>
    /\ UNCHANGED <<planvars, threadvars>>

(* a client writes text that is no JSON to a channel *)
RawPublish(topic) ==
    /\ Len(log) < MaxPublishes
    /\ Accept(topic, NotJson)
    /\ ret' = << >>
    /\ UNCHANGED <<reg, subs, psubs, alive, inv>>
    /\ UNCHANGED <<planvars, threadvars>>

(* listen(): the next message goes through _process_message *)
Process ==
    /\ alive
    /\ queue # << >>
    /\ LET m == Head(queue)
           d == decode(m.data)
           targets == listeners_in(reg, m)
       IN  /\ queue' = Tail(queue)
           /\ IF ~d.ok
                 THEN /\ alive' = ~d.fatal
                      /\ inv' = inv
                 ELSE \E order \in Orders(targets) :
                        LET r == run_listeners(order)
                        IN  /\ alive' = ~r.fatal
                            /\ inv' = inv (+) SetToBag(
                                   {[ev |-> m.ev, listener |-> l, topic |-> m.channel,
                                     data |-> d.value] : l \in r.invoked})
    /\ ret' = << >>
    /\ UNCHANGED <<reg, subs, psubs, log>>
    /\ UNCHANGED <<planvars, threadvars>>

BusInit ==
    /\ BusIdle
    /\ ThreadIdle
    /\ event = NoMsg
    /\ PlannerStart

BusNext ==
    \/ \E p \in BusPatterns, l \in Listeners : Subscribe(p, l)
    \/ \E t \in Topics, o \in PyObjs, up \in BOOLEAN : BusPublish(t, o, up)
    \/ \E t \in Topics : RawPublish(t)
    \/ Process

BusSpec == BusInit /\ [][BusNext]_vars

BusTypeOK ==
    /\ DOMAIN reg \subseteq BusPatterns
    /\ subs \subseteq BusPatterns /\ psubs \subseteq BusPatterns
    /\ Len(log) <= MaxPublishes
    /\ alive \in BOOLEAN

(* ================ EventBus: threads and the registry lock ============= *)
(* The same EventBus with listen() on one thread and subscribe called on   *)
(* another, at the grain of self._lock: a step is a stretch of code under  *)
(* the lock or a stretch outside it, and the iteration over self.listeners *)
(* at the head of the pmessage branch has a beginning and an end.  The     *)
(* broker call of subscribe gets through or raises.                        *)

(* the topic published on here: every pattern in use matches it *)
ThreadTopics == {"task.created"}

(* self.pubsub.psubscribe(event_type) or self.pubsub.subscribe(event_type) *)
broker_call(p) == IF IsGlob(p) THEN "psubscribe" ELSE "subscribe"

(* with self._lock: the listeners of the matching patterns and of '*'      *)
collect_listeners(r, matching) ==
    UNION {IF p \in DOMAIN r THEN Range(r[p]) ELSE {} : p \in matching}
    \cup (IF "*" \in DOMAIN r THEN Range(r["*"]) ELSE {})

(* subscribe(p, l) is called and takes self._lock *)
subscribe_enter(p, l) ==
    /\ spc = << >>
    /\ lock = "free"
    /\ NumPairs(reg) < MaxSubscribes \/ (p \in DOMAIN reg /\ l \in Range(reg[p]))
    /\ lock' = "subscribe"
    /\ spc' = <<[pattern |-> p, listener |-> l, at |-> "check"]>>
    /\ access' = << >>
    /\ ret' = << >>
    /\ UNCHANGED <<reg, subs, psubs, queue, alive, log, inv, dpc, cur>>
    /\ UNCHANGED planvars

(* if listener not in self.listeners[event_type]: append; else: the        *)
(* listener is there already, the call logs and returns                    *)
subscribe_check ==
    /\ spc # << >>
    /\ spc[1].at = "check"
    /\ LET p == spc[1].pattern
           l == spc[1].listener
       IN  IF p \in DOMAIN reg /\ l \in Range(reg[p])
              THEN /\ reg' = reg
                   /\ spc' = << >>
                   /\ lock' = "free"
                   /\ ret' = <<[op |-> "subscribe", pattern |-> p, listener |-> l,
                                broker |-> "none", raises |-> None,
                                before |-> [reg |-> reg, subs |-> subs, psubs |-> psubs]]>>
              ELSE /\ reg' = subscribe(reg, subs, psubs, p, l).reg
                   /\ spc' = <<[spc[1] EXCEPT !.at = "broker"]>>
                   /\ lock' = lock
                   /\ ret' = << >>
    /\ access' = <<[by |-> "subscribe", line |-> 55, locked |-> lock = "subscribe"]>>
    /\ UNCHANGED <<subs, psubs, queue, alive, log, inv, dpc, cur>>
    /\ UNCHANGED planvars

(* the broker call of subscribe; when it raises, the exception leaves the  *)
(* with block (the lock is released) and subscribe                         *)
subscribe_broker(up) ==
    /\ spc # << >>
    /\ spc[1].at = "broker"
    /\ LET p == spc[1].pattern
       IN  /\ subs' = IF up /\ broker_call(p) = "subscribe" THEN subs \cup {p} ELSE subs
           /\ psubs' = IF up /\ broker_call(p) = "psubscribe" THEN psubs \cup {p} ELSE psubs
           /\ ret' = <<[op |-> "subscribe", pattern |-> p, listener |-> spc[1].listener,
                        broker |-> broker_call(p),
                        raises |-> IF up THEN None ELSE "ConnectionError",
                        before |-> [reg |-> reg, subs |-> subs, psubs |-> psubs]]>>
    /\ spc' = << >>
    /\ lock' = "free"
    /\ access' = << >>
    /\ UNCHANGED <<reg, queue, alive, log, inv, dpc, cur>>
    /\ UNCHANGED planvars

(* a publisher's event reaches the broker *)
thread_publish(topic) ==
    /\ Len(log) < MaxPublishes
    /\ Accept(topic, json_dumps("{'k': 1}").text)
    /\ ret' = << >>
    /\ access' = << >>
    /\ UNCHANGED <<reg, subs, psubs, alive, inv, lock, spc, dpc, cur>>
    /\ UNCHANGED planvars

(* _process_message after matching_patterns is known: json.loads, then on  *)
(* to the lock                                                             *)
AfterMatching(m, matching) ==
    IF decode(m.data).ok
       THEN /\ dpc' = "collect"
            /\ cur' = <<[m |-> m, keys |-> {}, matching |-> matching, targets |-> {}]>>
       ELSE /\ dpc' = "listen"
            /\ cur' = << >>

(* listen() takes the next message; the message branch needs no look at    *)
(* the registry for its matching_patterns                                  *)
listen_take ==
    /\ dpc = "listen"
    /\ queue # << >>
    /\ queue' = Tail(queue)
    /\ LET m == Head(queue)
       IN  IF m.type = "pmessage"
              THEN /\ dpc' = "scan"
                   /\ cur' = <<[m |-> m, keys |-> {}, matching |-> {}, targets |-> {}]>>
              ELSE AfterMatching(m, {m.channel})
    /\ access' = << >>
    /\ ret' = << >>
    /\ UNCHANGED <<reg, subs, psubs, alive, log, inv, lock, spc>>
    /\ UNCHANGED planvars

(* the pmessage branch: [p for p in self.listeners if ...] begins to        *)
(* iterate over the registry; self._lock is not taken                      *)
scan_begin ==
    /\ dpc = "scan"
    /\ dpc' = "scanning"
    /\ cur' = <<[cur[1] EXCEPT !.keys = DOMAIN reg]>>
    /\ access' = <<[by |-> "dispatch", line |-> 111, locked |-> lock = "dispatch"]>>
    /\ ret' = << >>
    /\ UNCHANGED <<reg, subs, psubs, queue, alive, log, inv, lock, spc>>
    /\ UNCHANGED planvars

(* the iteration ends: with a key added to the dict since it began, the    *)
(* iterator raises RuntimeError (dictionary changed size during            *)
(* iteration), which nothing in _process_message or listen() catches       *)
scan_end ==
    /\ dpc = "scanning"
    /\ IF DOMAIN reg # cur[1].keys
          THEN /\ dpc' = "dead"
               /\ cur' = << >>
               /\ alive' = FALSE
          ELSE /\ AfterMatching(cur[1].m, matching_in(reg, cur[1].m))
               /\ alive' = alive
    /\ access' = <<[by |-> "dispatch", line |-> 111, locked |-> lock = "dispatch"]>>
    /\ ret' = << >>
    /\ UNCHANGED <<reg, subs, psubs, queue, log, inv, lock, spc>>
    /\ UNCHANGED planvars

(* with self._lock: collect the listeners; the lock is free again when the *)
(* block is left                                                           *)
collect ==
    /\ dpc = "collect"
    /\ lock = "free"
    /\ dpc' = "invoke"
    /\ cur' = <<[cur[1] EXCEPT !.targets = collect_listeners(reg, cur[1].matching)]>>
    /\ access' = <<[by |-> "dispatch", line |-> 140, locked |-> TRUE]>>
    /\ ret' = << >>
    /\ UNCHANGED <<reg, subs, psubs, queue, alive, log, inv, lock, spc>>
    /\ UNCHANGED planvars

(* for listener in all_listeners: listener(event_type, data) *)
invoke ==
    /\ dpc = "invoke"
    /\ \E order \in Orders(cur[1].targets) :
         LET r == run_listeners(order)
         IN  /\ alive' = ~r.fatal
             /\ inv' = inv (+) SetToBag(
                    {[ev |-> cur[1].m.ev, listener |-> l, topic |-> cur[1].m.channel,
                      data |-> decode(cur[1].m.data).value] : l \in r.invoked})
    /\ dpc' = "listen"
    /\ cur' = << >>
    /\ access' = << >>
    /\ ret' = << >>
    /\ UNCHANGED <<reg, subs, psubs, queue, log, lock, spc>>
    /\ UNCHANGED planvars

ThreadInit ==
    /\ BusIdle
    /\ ThreadIdle
    /\ event = NoMsg
    /\ PlannerStart

ThreadNext ==
    \/ \E p \in BusPatterns, l \in Listeners : subscribe_enter(p, l)
    \/ subscribe_check
    \/ \E up \in BOOLEAN : subscribe_broker(up)
    \/ \E t \in ThreadTopics : thread_publish(t)
    \/ listen_take
    \/ scan_begin
    \/ scan_end
    \/ collect
    \/ invoke

ThreadSpec == ThreadInit /\ [][ThreadNext]_vars

ThreadTypeOK ==
    /\ lock \in {"free", "subscribe"}
    /\ dpc \in {"listen", "scan", "scanning", "collect", "invoke", "dead"}
    /\ (lock = "subscribe") = (spc # << >>)
    /\ (dpc \in {"listen", "dead"}) = (cur = << >>)
    /\ alive = (dpc # "dead")

(* ============================ properties ============================== *)
PublishedNow(topic) == wire # << >> /\ wire[1].topic = topic

SetCall == call # << >> /\ call[1].op = "SET"

DelCall == call # << >> /\ call[1].op = "DEL"

(* the keyspace `after` is the keyspace `before` with key holding val for  *)
(* ttl seconds and every other key as it was                               *)
IsSetOf(after, before, key, val, ttl) ==
    /\ DOMAIN after = DOMAIN before \cup {key}
    /\ after[key] = [val |-> val, ttl |-> ttl]
    /\ \A k \in DOMAIN before \ {key} : after[k] = before[k]

Holders(t) == {w \in Workers : InSection(w) /\ msg[w].task_id = t}

(* nothing is left to happen for the event: it was published, no live      *)
(* worker is in a handler or has a message waiting, no key is left         *)
Quiescent ==
    /\ sent
    /\ \A w \in Workers : pc[w] \in {"idle", "crashed"} /\ inbox[w] = << >>
    /\ DOMAIN store = {}

(* no worker has died and no key has expired under its holder *)
Undisturbed == ~overstay /\ \A w \in Workers : crashed[w] = "no"

(* C1: for one task.created event delivered to two or more workers the    *)
(* task is planned once: after a plan.proposed for it was published, no    *)
(* step of an undisturbed run publishes plan.proposed for it again.        *)
C1_PlannedOnce ==
    [][("planned" \in seen /\ Undisturbed') =>
          ~(wire' # << >> /\ wire'[1].topic = "plan.proposed")]_vars

(* C2: as long as no key has expired under a worker that was still         *)
(* processing (every holder finishes within the TTL), at most one worker   *)
(* is between its successful claim and its release for the same task id.   *)
C2_MutualExclusion ==
    ~overstay => \A t \in TaskIds : Cardinality(Holders(t)) <= 1

C2_Witness ==
    /\ ~overstay
    /\ \E w, v \in Workers :
         /\ w # v
         /\ InSection(w)
         /\ msg[v].task_id = msg[w].task_id
         /\ rel[v] > 0

(* C3: a claim call that got through on an unclaimed key answers OK, sets  *)
(* the key to the caller's value with the full TTL and lets the caller     *)
(* proceed; on a claimed key it answers nil, leaves the keyspace (key,     *)
(* value, remaining time) exactly as it was and the caller does not        *)
(* proceed.  So of the workers claiming one unclaimed key exactly the      *)
(* first gets true.                                                        *)
C3_ClaimExclusive ==
    SetCall =>
        LET c == call[1]
        IN  /\ c.reply = "OK" =>
                /\ c.key \notin DOMAIN c.before
                /\ IsSetOf(store, c.before, c.key, attempt[c.by], LockTTL)
                /\ InSection(c.by) \/ msg[c.by].goal = BadData
            /\ c.reply = "nil" =>
                /\ c.key \in DOMAIN c.before
                /\ store = c.before
                /\ ~InSection(c.by)

C3_Witness ==
    /\ SetCall
    /\ call[1].reply = "nil"
    /\ \E v \in Workers : v # call[1].by /\ InSection(v)
                             /\ msg[v].task_id = msg[call[1].by].task_id

(* C4: a worker that crashed while it held the claim does not strand the   *)
(* task: once nothing is left to happen for the event (a well-formed one:  *)
(* task id and goal string) and a worker is still alive, an outcome of the *)
(* task (plan.proposed, plan.error or task.error) was published.           *)
C4_CrashDoesNotStrand ==
    ( /\ Quiescent
      /\ event.task_id \in TaskIds /\ event.goal \in Goals
      /\ \E w \in Workers : crashed[w] = "holding"
      /\ \E w \in Workers : crashed[w] = "no" )
    => seen # {}

(* C5: a claim key always has between 1 and 60 seconds left, so it is      *)
(* gone at the latest 60 seconds after it was set, whatever became of its  *)
(* holder; a claim call that gets through answers OK exactly when the key  *)
(* is absent, so every claim before the expiry fails and the next one      *)
(* after it succeeds.                                                      *)
C5_TTLSelfHeal ==
    /\ \A k \in DOMAIN store : store[k].ttl \in 1..LockTTL
    /\ (SetCall /\ call[1].reply # "raised") =>
          (call[1].reply = "OK" <=> call[1].key \notin DOMAIN call[1].before)

(* a worker died holding the claim, and another worker has just claimed    *)
(* the same key while no holder was overtaken by an expiry                 *)
C5_Witness ==
    /\ SetCall
    /\ call[1].reply = "OK"
    /\ ~overstay
    /\ \E w \in Workers : crashed[w] = "holding"

(* C6: an invocation whose processing fails every time (the goal makes     *)
(* create_execution_plan raise, and it did run) ends after exactly         *)
(* max_retries attempts,                                                   *)
(* with strictly increasing sleeps between them, exactly one task.error    *)
(* and exactly one release.                                                *)
C6_RetryTermination ==
    \A w \in Workers :
        (pc[w] = "ret" /\ msg[w].goal = BadGoal /\ rel[w] > 0 /\ last[w] # "skip") =>
            /\ attempt[w] = max_retries - 1
            /\ Len(delays[w]) = max_retries - 1
            /\ IsIncreasing(delays[w])
            /\ errs[w] = 1
            /\ rel[w] = 1

C8_SuccessShortCircuits ==
    \A w \in Workers :
        last[w] \in {"ok", "skip"} =>
            /\ pc[w] = "ret"
            /\ errs[w] = 0
            /\ Len(delays[w]) = attempt[w]

(* an attempt succeeded after an earlier one had failed *)
C8_Witness == \E w \in Workers : last[w] = "ok" /\ attempt[w] > 0 /\ pc[w] = "ret"

(* C9: a claim call answered nil is a skip: the keyspace is unchanged, no  *)
(* event is published, the handler returns without a sleep or another      *)
(* attempt.  A claim call that raises is a failed attempt: the retry loop  *)
(* sleeps and tries again, or gives up after the last attempt.             *)
C9_ConflictIsSkip ==
    SetCall =>
        LET c == call[1]
            w == c.by
        IN  /\ c.reply = "nil" =>
                /\ store = c.before
                /\ wire = << >>
                /\ pc[w] = "ret"
                /\ last[w] = "skip"
                /\ errs[w] = 0
                /\ Len(delays[w]) = attempt[w]
            /\ c.raises =>
                /\ store = c.before
                /\ last[w] = "raised"
                /\ pc[w] = AfterRaise(attempt[w])
                /\ pc[w] = "sleep" => Len(delays[w]) = attempt[w] + 1

C9_Witness ==
    /\ SetCall
    /\ call[1].reply = "nil"
    /\ pc[call[1].by] = "ret"
    /\ attempt[call[1].by] = 0

(* C10: a release never raises to its caller, whether the delete got       *)
(* through or not; on a key that is not there it changes nothing, and a    *)
(* second release of the same key changes nothing more.                    *)
C10_ReleaseIdempotent ==
    /\ DelCall =>
          LET c == call[1]
          IN  /\ ~c.raises
              /\ c.key \notin DOMAIN c.before => store = c.before
              /\ c.reply = "raised" => store = c.before
              /\ c.reply # "raised" => c.key \notin DOMAIN store
    /\ \A t \in TaskIds : \A up1, up2 \in BOOLEAN :
          LET r1 == safe_release_lock(store, lock_key(t), up1)
              r2 == safe_release_lock(r1.store, lock_key(t), up2)
          IN  /\ ~r1.raises /\ ~r2.raises
              /\ up1 => r2.store = r1.store

(* a release of a key that was gone already (it had expired) *)
C10_Witness ==
    /\ DelCall
    /\ call[1].reply = "0"
    /\ call[1].key \notin DOMAIN call[1].before
    /\ store = call[1].before

(* C11: per task id the claim key only goes from absent to present by a   *)
(* claim call answered OK (holding the caller's value, with the full TTL), *)
(* and from present to absent by a release or by its expiry; while it is   *)
(* present no step changes its value or gives it more time.  (One key per  *)
(* task id: the keyspace is a function of the key.)                        *)
C11_ClaimTransitions ==
    [][\A t \in TaskIds :
          LET k == lock_key(t)
          IN  /\ (k \notin DOMAIN store /\ k \in DOMAIN store') =>
                    /\ call' # << >>
                    /\ call'[1].op = "SET" /\ call'[1].reply = "OK" /\ call'[1].key = k
                    /\ store'[k] = [val |-> attempt[call'[1].by], ttl |-> LockTTL]
              /\ (k \in DOMAIN store /\ k \notin DOMAIN store') =>
                    \/ call' # << >> /\ call'[1].op = "DEL" /\ call'[1].reply = "1"
                                     /\ call'[1].key = k
                    \/ Tick /\ store[k].ttl = Min(Timers)
              /\ (k \in DOMAIN store /\ k \in DOMAIN store') =>
                    /\ store'[k].val = store[k].val
                    /\ store'[k].ttl <= store[k].ttl
              /\ (store' # store) =>
                    \/ call' # << >> /\ call'[1].reply \in {"OK", "1"}
                    \/ Tick
      ]_vars

(* the key is claimed again after another worker had claimed and released *)
(* it                                                                      *)
C11_Witness ==
    /\ SetCall
    /\ call[1].reply = "OK"
    /\ \E v \in Workers : v # call[1].by /\ rel[v] > 0 /\ last[v] = "ok"

(* C12: a release that gets through deletes the key that is there, whoever *)
(* set it and whatever its value is: nothing of the key is compared with   *)
(* the caller.  So a worker that was overtaken by the expiry of its claim  *)
(* deletes the claim of the worker that came after it.                     *)
C12_ReleaseUnchecked ==
    (DelCall /\ call[1].reply = "1") =>
        /\ call[1].key \in DOMAIN call[1].before
        /\ DOMAIN store = DOMAIN call[1].before \ {call[1].key}
        /\ \A k \in DOMAIN store : store[k] = call[1].before[k]

(* worker A has just deleted a key that holds the value of worker B's      *)
(* attempt, not of its own, while B is still processing: the key is gone   *)
(* and the next claim call on it will be answered OK                       *)
C12_Witness ==
    /\ DelCall
    /\ call[1].reply = "1"
    /\ overstay
    /\ call[1].before[call[1].key].val # attempt[call[1].by]
    /\ \E b \in Workers :
         /\ b # call[1].by
         /\ InSection(b)
         /\ lock_key(msg[b].task_id) = call[1].key
         /\ call[1].before[call[1].key].val = attempt[b]
         /\ call[1].key \notin DOMAIN store

(* ------------------------ properties of the bus ----------------------- *)
(* what a glob is to match, written out for the names in use *)
GlobSays(topic, p) ==
    \/ p = "*"
    \/ p = topic
    \/ p = "task.*" /\ topic \in {"task.created"}

(* the invocation of listener l for event number e with the event's topic  *)
(* and the payload as json.loads gives it                                  *)
InvocationOf(e, l) ==
    [ev |-> e, listener |-> l, topic |-> log[e].topic,
     data |-> json_loads(log[e].text).value]

Count(e, l) == CopiesIn(InvocationOf(e, l), inv)

(* every broker message of event e has gone through _process_message *)
Processed(e) == \A i \in DOMAIN queue : queue[i].ev # e

Decodable(e) == log[e].text # NotJson

(* the patterns of registry r that match topic t and hold listener l *)
PatternsOf(r, t, l) == {p \in DOMAIN r : GlobSays(t, p) /\ l \in Range(r[p])}

Interested(r, t) == {l \in Listeners : PatternsOf(r, t, l) # {}}

Done == {e \in DOMAIN log : Processed(e) /\ Decodable(e)}

(* C13: a listener subscribed to the exact topic of an event, and to       *)
(* nothing else, when the event was published has been invoked exactly     *)
(* once for it when the bus has processed the event, whatever the bus      *)
(* holds for other listeners.                                              *)
C13_ExactOnce ==
    \A e \in Done :
        \A l \in Listeners :
            PatternsOf(log[e].reg, log[e].topic, l) = {log[e].topic}
                => Count(e, l) = 1

(* C14: a listener registered under several patterns that match an event's *)
(* topic has been invoked exactly once for the event when the bus has      *)
(* processed it.                                                           *)
C14_OncePerEvent ==
    \A e \in Done :
        \A l \in Listeners :
            Cardinality(PatternsOf(log[e].reg, log[e].topic, l)) >= 2
                => Count(e, l) = 1

C20_PublishReportsFailure ==
    (ret # << >> /\ ret[1].op = "publish") =>
        LET c == ret[1]
        IN  /\ c.data = "{'k': {1, 2}}" => (c.raises = "TypeError" /\ log = c.before)
            /\ (c.data # "{'k': {1, 2}}" /\ ~c.up) =>
                  (c.raises = "ConnectionError" /\ log = c.before)
            /\ c.raises = None =>
                  /\ c.sent
                  /\ Len(log) = Len(c.before) + 1
                  /\ log[Len(log)].topic = c.topic
            /\ c.raises # None => (~c.sent /\ log = c.before)

C20_Witness ==
    /\ ret # << >>
    /\ ret[1].op = "publish"
    /\ ret[1].raises = "TypeError"
    /\ ~ret[1].sent
    /\ subs # {}

(* ------------------- the planner: order inside an attempt ------------- *)
(* this step puts `topic` on the wire for worker w *)
Publishes(w, topic) ==
    wire' # << >> /\ wire'[1].by = w /\ wire'[1].topic = topic

(* this step issues worker w's release call *)
Releases(w) == call' # << >> /\ call'[1].by = w /\ call'[1].op = "DEL"

C22_SerialDispatch ==
    [][\A w \in Workers :
          (Len(inbox'[w]) < Len(inbox[w]) /\ pc'[w] # "crashed") =>
              /\ pc[w] = "idle"
              /\ inbox'[w] = Tail(inbox[w])
              /\ pc'[w] \in {"idle", "claim", "ret"}
              /\ pc'[w] # "idle" => msg'[w] = Head(inbox[w]).data
      ]_vars

(* a message waits on the connection while the handler sleeps *)
C22_Witness ==
    \E w \in Workers : pc[w] = "sleep" /\ inbox[w] # << >> /\ delays[w] # << >>

(* C25: the retry wrapper never sleeps while it holds the claim: a worker  *)
(* that enters its backoff sleep has not just set the key, and has not     *)
(* just left its own key in place with a release that failed.              *)
C25_NeverSleepsHolding ==
    \A w \in Workers :
        (pc[w] = "sleep" /\ call # << >> /\ call[1].by = w) =>
            IF call[1].op = "SET"
               THEN call[1].reply # "OK"
               ELSE call[1].key \notin DOMAIN store \/ overstay

(* C26: handle_task_created raises no exception to the dispatch loop,      *)
(* whatever calls to the broker fail: no invocation of it for an event     *)
(* that carries a task id ends by raising to _process_message.             *)
C26_HandlerNeverRaises ==
    \A w \in Workers : msg[w].task_id \in TaskIds => last[w] # "thrown"

(* C27: after failed attempt k (from 0) with k < max_retries - 1 the       *)
(* handler sleeps exactly 2^k seconds before attempt k + 1, so 1 and 2     *)
(* seconds for max_retries = 3; there is one sleep before each retry and   *)
(* none after the final failed attempt.                                    *)
C27_Backoff ==
    \A w \in Workers :
        /\ Len(delays[w]) <= max_retries - 1
        /\ \A i \in DOMAIN delays[w] : delays[w][i] = 2 ^ (i - 1)
        /\ pc[w] = "sleep" =>
               attempt[w] < max_retries - 1 /\ Len(delays[w]) = attempt[w] + 1
        /\ pc[w] = "claim" => Len(delays[w]) = attempt[w]
        /\ pc[w] = "pub_task_error" =>
               attempt[w] = max_retries - 1 /\ Len(delays[w]) = attempt[w]

(* all attempts failed: the handler slept 1 and 2 seconds, and not again *)
C27_Witness ==
    \E w \in Workers : pc[w] = "pub_task_error" /\ delays[w] = <<1, 2>>

(* this step ends worker w's attempt with an exception in the retry loop *)
AttemptRaises(w) ==
    pc'[w] \in {"sleep", "pub_task_error"} /\ pc[w] \notin {"sleep", "pub_task_error"}

C30_ReleaseAfterAcquire ==
    \A w \in Workers :
        (SetCall /\ call[1].by = w /\ call[1].reply = "OK") =>
            (pc[w] \in SectionPc /\ rel[w] <= attempt[w])

C23_RegistryUnderLock ==
    /\ access # << >> => access[1].locked
    /\ ~(dpc = "scanning" /\ lock = "subscribe")

(* C28: whenever no subscribe call is in progress, every pattern that has  *)
(* a registered listener has a broker subscription of the matching kind:   *)
(* a pattern subscription when it holds '*', a channel subscription        *)
(* otherwise.                                                              *)
C28_SubscriptionsMatch ==
    spc = << >> =>
        \A p \in DOMAIN reg :
            reg[p] # << >> => IF IsGlob(p) THEN p \in psubs ELSE p \in subs

====
